---- MODULE Spec2Model ----
(***************************************************************************)
(* The dispatch core of the event broker (class EventBroker): the listener *)
(* registry, the middleware chain, the three-slot error policy, and the    *)
(* operations emit / on / once / off / clear / use.                        *)
(*                                                                         *)
(* Dispatch is synchronous, so one call stack is modelled. User callbacks  *)
(* (listeners, middleware, the callers of the broker) are arbitrary code:  *)
(* while a callback runs it may call any broker operation, return or       *)
(* throw, and every such choice is nondeterministic here.                  *)
(***************************************************************************)
EXTENDS Integers, Sequences, FiniteSets, TLC

(* ------------------------------ inputs --------------------------------- *)

Names == {"x", "y"}       \* event names (keys of the event map)
Fns   == {"f", "g"}       \* user listener functions, by reference
Mws   == {"A", "B"}       \* user middleware functions, by reference
Data  == {1, 2}           \* payloads

MaxNext  == 1             \* times one middleware invocation calls its next
MaxOnce  == 2             \* once() adapters ever created
MaxCalls == 2             \* where the per-adapter invocation count saturates

\* Listener scenarios (no middleware): broker calls made by top-level code, calls
\* made by callbacks during one top-level call, emit calls in progress at once.
MaxOpsL   == 3
MaxInnerL == 1
MaxDepthL == 2
\* Middleware scenarios: the same three limits.
MaxOpsM   == 4
MaxInnerM == 0
MaxDepthM == 1
\* Registry scenarios (sequences of registry calls and emits, all remembered).
MaxOpsR   == 4
MaxInnerR == 0
MaxDepthR == 1
\* Chain scenarios (sequences of use, removers and emits, all remembered).
MaxOpsU   == 5
MaxInnerU == 0
MaxDepthU == 1
\* Overflow scenarios (many listeners on one event name).
MaxOpsW   == 12
MaxInnerW == 0
MaxDepthW == 1
\* Listeners that change the registry more than once while they run.
MaxOpsT   == 3
MaxInnerT == 2
MaxDepthT == 1
\* Middlewares and listeners that change the chain while an emission runs.
MaxOpsC   == 3
MaxInnerC == 2
MaxDepthC == 2
\* Brokers constructed from one options object.
MaxUserMws == 3
MaxBrokers == 3
\* React components subscribing through the event hooks.
MaxComponents == 2
MaxOpsH   == 5
MaxInnerH == 0
MaxDepthH == 1

(* --------------------------- program constants ------------------------- *)

DEFAULT_MAX_LISTENERS == 10

POLICY_CONTINUE == "continue"
POLICY_STOP == "stop"
HANDLER == "handler"      \* a slot holding a custom function (error, event) => void
MISSING == "missing"      \* a slot left undefined in a supplied errorPolicy object

ERROR_TYPE_LISTENER == "listener"
ERROR_TYPE_EMIT == "emit"
ERROR_TYPE_MIDDLEWARE == "middleware"

DEFAULT_ERROR_POLICY ==
  [onListenerError |-> POLICY_CONTINUE,
   onEmitError |-> POLICY_CONTINUE,
   onMiddlewareError |-> POLICY_CONTINUE]

Policies == {POLICY_CONTINUE, POLICY_STOP, HANDLER, MISSING}

\* options.errorPolicy || DEFAULT_ERROR_POLICY : any object of the ErrorPolicy type
ErrorPolicy ==
  [onListenerError : Policies, onEmitError : Policies, onMiddlewareError : Policies]

\* options.maxListeners || DEFAULT_MAX_LISTENERS : a positive threshold
MaxListenersChoices == {1, 2, DEFAULT_MAX_LISTENERS}

\* The options object new EventBroker() gets by default, {}: options.middlewares
\* is left out (has is FALSE) and options.logger is not set.
NoOptions == [has |-> FALSE, middlewares |-> <<>>, logger |-> FALSE]

\* the components of the React tree, and one that is not mounted
Components == 1..MaxComponents
Unmounted == [mounted |-> FALSE]

NoExc == "none"                       \* no exception in flight
InvalidErrorType == "Invalid error type"   \* the Error handleError makes itself

(* ------------------------------ listeners ------------------------------ *)

\* A registered function: a user listener, or the private adapter made by once().
Plain(f) == [fn |-> f, once |-> 0, ev |-> ""]
\* (mutant) once() that makes one adapter per listener, not one per call
WrappedListenerPerListener(k, f, n) == [fn |-> f, once |-> 1, ev |-> k]
WrappedListener(k, f, n) == [fn |-> f, once |-> n, ev |-> k]

(* ------------- Set<listener> / Set<middleware>: insertion ordered ------- *)

SetHas(s, v) == \E i \in 1..Len(s) : s[i] = v
\* (mutant) add() that moves a value already present to the end
SetAddMovesToEnd(s, v) == Append(SelectSeq(s, LAMBDA z : z # v), v)
\* (mutant) add() that appends even a value already present
SetAddAppends(s, v) == Append(s, v)
SetAdd(s, v) == IF SetHas(s, v) THEN s ELSE Append(s, v)
\* (mutant) delete() that removes the oldest value instead of the one given
SetDeleteHead(s, v) == IF s = <<>> THEN s ELSE Tail(s)
SetDelete(s, v) == SelectSeq(s, LAMBDA z : z # v)
IndexOf(s, v) == IF SetHas(s, v) THEN CHOOSE i \in 1..Len(s) : s[i] = v ELSE 0

(* ------------------------ Map<eventName, Set> --------------------------- *)

EmptyMap == [k \in {} |-> <<>>]
MapHas(m, k) == k \in DOMAIN m
MapSet(m, k, v) == [z \in DOMAIN m \cup {k} |-> IF z = k THEN v ELSE m[z]]
\* (mutant) delete() that leaves the Map as it is
MapDeleteNothing(m, k) == m
MapDelete(m, k) == [z \in DOMAIN m \ {k} |-> m[z]]
MapGet(m, k) == IF MapHas(m, k) THEN m[k] ELSE <<>>

VARIABLES
  listeners,      \* this.listeners : Map<eventName, Set<listener>>
  middlewares,    \* this.middlewares : Set<middleware>
  errorPolicy,    \* this.errorPolicy
  maxListeners,   \* this.maxListeners
  stack,          \* the call stack of the running dispatch, innermost frame last
  exc,            \* the exception being thrown up the stack, or NoExc
  unsubs,         \* the Unsubscribe closures on() / once() returned so far
  removers,       \* the remover closures use() returned so far
  adapters,       \* number of once() adapters created
  ops,            \* broker calls made by top-level code so far
  log,            \* what the last top-level call did, in order
  quota,          \* the limits on the callers of the broker in this run
  regOrder,       \* per event name, the registered functions by first registration
  onceCalls,      \* per adapter, how many times it was invoked (saturating)
  components,     \* per React component, the effect of its event hook
  options,        \* the options object the caller passes to the constructor
  brokers         \* what each constructor call on that object was given and made

vars == <<listeners, middlewares, errorPolicy, maxListeners, stack, exc, unsubs,
          removers, adapters, ops, log, quota, regOrder, onceCalls, components,
          options, brokers>>


(* ------------------------------ call stack ----------------------------- *)

Top == stack[Len(stack)]
Pop == SubSeq(stack, 1, Len(stack) - 1)
Range(s) == {s[i] : i \in 1..Len(s)}

\* Frames. "emit": a running emit(k, d). "mw": the function a middleware returned,
\* running with an event. "term": the terminal stage, iterating a Set object with
\* the Set's own live iterator: items is that Set, idx the entries already passed,
\* attached whether the Set is still the one the registry holds for k.
\* "lis": a registered function running.
EmitFrame(e, k, d) == [kind |-> "emit", e |-> e, k |-> k, d |-> d]
MwFrame(e, k, chain, i, event) ==
  [kind |-> "mw", e |-> e, k |-> k, chain |-> chain, i |-> i, m |-> chain[i],
   event |-> event, nexts |-> 0]
\* (mutant) a terminal stage that broadcasts to the listeners of every event name
TermFrameBroadcast(e, k, event) ==
  [kind |-> "term", e |-> e, k |-> k, event |-> event,
   items |-> MapGet(listeners, "x") \o MapGet(listeners, "y"), idx |-> 0,
   attached |-> FALSE]
\* (mutant) a terminal stage that looks up the listeners of the event's own name
TermFrameOfEventName(e, k, event) ==
  [kind |-> "term", e |-> e, k |-> event.name, event |-> event,
   items |-> MapGet(listeners, event.name), idx |-> 0,
   attached |-> MapHas(listeners, event.name)]
TermFrame(e, k, event) ==
  [kind |-> "term", e |-> e, k |-> k, event |-> event,
   items |-> MapGet(listeners, k), idx |-> 0, attached |-> MapHas(listeners, k)]
LisFrame(e, l, d) == [kind |-> "lis", e |-> e, l |-> l, d |-> d]

IsUserFrame(fr) == fr.kind \in {"lis", "mw"}
IsIter(fr, k) == fr.kind = "term" /\ fr.attached /\ fr.k = k

\* Code that may call the broker is running: top-level code, or a callback.
AtTopLevel == stack = <<>>
IsCall(x) == x.t \in {"op", "emit"}
\* a call made by top-level code, and the place of the last one in a log
IsTopCall(x) == IF x.t = "emit" THEN x.from = 0 ELSE x.t = "op" /\ x.e = 0
LastTop(lg) ==
  IF \E i \in 1..Len(lg) : IsTopCall(lg[i])
    THEN CHOOSE i \in 1..Len(lg) :
           IsTopCall(lg[i]) /\ \A j \in i + 1..Len(lg) : ~IsTopCall(lg[j])
    ELSE 0
\* the calls callbacks made during the current top-level call
Inner(lg) == Cardinality({i \in LastTop(lg) + 1..Len(lg) : IsCall(lg[i])})
Depth == Cardinality({i \in 1..Len(stack) : stack[i].kind = "emit"})
CanCall ==
  /\ exc = NoExc
  /\ IF AtTopLevel THEN ops < quota.ops
     ELSE IsUserFrame(Top) /\ Inner(log) < quota.inner

\* The log holds the last top-level call and everything done inside it, or, in
\* the runs that keep it, every call since construction.
Base == IF AtTopLevel /\ ~quota.keep THEN <<>> ELSE log
CurE == IF AtTopLevel THEN 0 ELSE Top.e
Counted == ops' = IF AtTopLevel THEN ops + 1 ELSE ops

(* --------------------------- error policy ------------------------------ *)

\* (mutant) a "stop" strategy that reports the error handled instead of throwing it
StopReturnsHandled(policy, error, event, type, e) ==
  [handled |-> TRUE, err |-> NoExc, notes |-> <<>>]

\* (mutant) a strategy that rethrows under every policy
EveryPolicyRethrows(policy, error, event, type, e) ==
  [handled |-> FALSE, err |-> error, notes |-> <<>>]

\* (mutant) a strategy that calls the custom handler and then rethrows the error
HandlerThenRethrows(policy, error, event, type, e) ==
  IF policy = HANDLER
    THEN [handled |-> FALSE, err |-> error,
          notes |-> <<[t |-> "handler", e |-> e, slot |-> type, err |-> error,
                       event |-> event]>>]
  ELSE IF policy = POLICY_CONTINUE
    THEN [handled |-> TRUE, err |-> NoExc,
          notes |-> <<[t |-> "console", e |-> e, slot |-> type, err |-> error,
                       event |-> event]>>]
  ELSE IF policy = POLICY_STOP
    THEN [handled |-> FALSE, err |-> error, notes |-> <<>>]
  ELSE [handled |-> TRUE, err |-> NoExc, notes |-> <<>>]

\* getErrorHandlingStrategy(policy)(error, event, type): handled, or the error thrown
GetErrorHandlingStrategy(policy, error, event, type, e) ==
  IF policy = HANDLER
    THEN [handled |-> TRUE, err |-> NoExc,
          notes |-> <<[t |-> "handler", e |-> e, slot |-> type, err |-> error,
                       event |-> event]>>]
  ELSE IF policy = POLICY_CONTINUE
    THEN [handled |-> TRUE, err |-> NoExc,
          notes |-> <<[t |-> "console", e |-> e, slot |-> type, err |-> error,
                       event |-> event]>>]
  ELSE IF policy = POLICY_STOP
    THEN [handled |-> FALSE, err |-> error, notes |-> <<>>]
  ELSE [handled |-> TRUE, err |-> NoExc, notes |-> <<>>]

\* (mutant) a policy_map that resolves every tag with the listener slot
PolicyMapListenerSlot(type) == errorPolicy.onListenerError

PolicyMap(type) ==
  CASE type = ERROR_TYPE_LISTENER -> errorPolicy.onListenerError
    [] type = ERROR_TYPE_EMIT -> errorPolicy.onEmitError
    [] type = ERROR_TYPE_MIDDLEWARE -> errorPolicy.onMiddlewareError

\* (mutant) handleError that throws the error back whatever the policy
HandleErrorThrows(error, event, type, e) ==
  [handled |-> FALSE, err |-> error, notes |-> <<>>]

\* (mutant) handleError that treats a missing slot as "continue"
HandleErrorMissingContinues(error, event, type, e) ==
  GetErrorHandlingStrategy(IF PolicyMap(type) = MISSING THEN POLICY_CONTINUE
                           ELSE PolicyMap(type), error, event, type, e)
HandleError(error, event, type, e) ==
  IF PolicyMap(type) = MISSING
    THEN [handled |-> FALSE, err |-> InvalidErrorType, notes |-> <<>>]
    ELSE GetErrorHandlingStrategy(PolicyMap(type), error, event, type, e)

(* ------------------------- registry operations -------------------------- *)

\* on(): lines 208-222. The warning looks at the size before the insertion.
\* (mutant) a check that warns only above the threshold, not at it
OverflowAbove(k) == MapHas(listeners, k) /\ Len(listeners[k]) > maxListeners
Overflow(k) == MapHas(listeners, k) /\ Len(listeners[k]) >= maxListeners
\* (mutant) on() that refuses the listener once the threshold is reached
ListenersAfterOnCapped(k, l) ==
  IF Overflow(k) THEN listeners
  ELSE MapSet(listeners, k, SetAdd(MapGet(listeners, k), l))
ListenersAfterOn(k, l) == MapSet(listeners, k, SetAdd(MapGet(listeners, k), l))
StackAfterOn(st, k, l) ==
  [i \in 1..Len(st) |->
     IF IsIter(st[i], k) THEN [st[i] EXCEPT !.items = SetAdd(@, l)] ELSE st[i]]

\* off(): lines 252-262. A Set that becomes empty leaves the Map; a running
\* iteration keeps the (now empty) Set object.
\* (mutant) off() that keeps the entry of a Set it has emptied
ListenersAfterOffKeepsEmptySet(k, l) ==
  IF ~MapHas(listeners, k) THEN listeners
  ELSE MapSet(listeners, k, SetDelete(listeners[k], l))
ListenersAfterOff(k, l) ==
  IF ~MapHas(listeners, k) THEN listeners
  ELSE IF Len(SetDelete(listeners[k], l)) = 0 THEN MapDelete(listeners, k)
  ELSE MapSet(listeners, k, SetDelete(listeners[k], l))
IterAfterDelete(fr, l) ==
  [fr EXCEPT !.items = SetDelete(@, l),
             !.idx = IF IndexOf(fr.items, l) # 0 /\ IndexOf(fr.items, l) <= @
                       THEN @ - 1 ELSE @,
             !.attached = Len(SetDelete(fr.items, l)) # 0]
StackAfterOff(st, k, l) ==
  [i \in 1..Len(st) |-> IF IsIter(st[i], k) THEN IterAfterDelete(st[i], l) ELSE st[i]]

\* clear(): the Map is emptied; the Set objects are not.
\* (mutant) clear() that also empties the Sets a running emission iterates
StackAfterClearEmptiesSets(st) ==
  [i \in 1..Len(st) |->
     IF st[i].kind = "term"
       THEN [st[i] EXCEPT !.items = <<>>, !.idx = 0, !.attached = FALSE]
       ELSE st[i]]
StackAfterClear(st) ==
  [i \in 1..Len(st) |->
     IF st[i].kind = "term" THEN [st[i] EXCEPT !.attached = FALSE] ELSE st[i]]

\* Order of first registration among what is registered now (history, not code).
RegAfterOn(k, l) ==
  [regOrder EXCEPT ![k] = IF l \in Range(@) THEN @ ELSE @ \o <<l>>]
RegAfterOff(k, l) ==
  [regOrder EXCEPT ![k] = SelectSeq(@, LAMBDA z : z # l)]

TypeOK ==
  /\ DOMAIN listeners \subseteq Names
  /\ errorPolicy \in ErrorPolicy
  /\ maxListeners \in MaxListenersChoices
  /\ adapters \in 0..MaxOnce
  /\ ops \in 0..quota.ops

\* The broker after construction; options.middlewares is left empty here and
\* middleware is added with use().
Constructed ==
  /\ listeners = EmptyMap
  /\ middlewares = <<>>
  /\ errorPolicy \in ErrorPolicy
  /\ maxListeners \in MaxListenersChoices
  /\ stack = <<>>
  /\ exc = NoExc
  /\ unsubs = {}
  /\ removers = {}
  /\ adapters = 0
  /\ ops = 0
  /\ log = <<>>
  /\ regOrder = [k \in Names |-> <<>>]
  /\ onceCalls = [n \in 1..MaxOnce |-> 0]
  /\ components = [c \in Components |-> Unmounted]
  /\ options = NoOptions
  /\ brokers = <<>>

\* on(eventName, listener), for a user listener or for once()'s adapter
Register(k, l, via) ==
  /\ CanCall
  /\ Counted
  /\ listeners' = ListenersAfterOn(k, l)
  /\ stack' = StackAfterOn(stack, k, l)
  /\ unsubs' = unsubs \cup {[ev |-> k, l |-> l]}
  /\ regOrder' = RegAfterOn(k, l)
  /\ log' = Append(Base, [t |-> "op", e |-> CurE, op |-> via, k |-> k, l |-> l,
                          warn |-> Overflow(k), was |-> listeners])

On(k, f) ==
  /\ Register(k, Plain(f), "on")
  /\ UNCHANGED <<quota, options, brokers, components, middlewares, errorPolicy, maxListeners, exc, removers,
                 adapters,
                 onceCalls>>

\* once(eventName, listener): a fresh adapter each call, registered through on()
Once(k, f) ==
  /\ adapters < MaxOnce
  /\ adapters' = adapters + 1
  /\ Register(k, WrappedListener(k, f, adapters + 1), "once")
  /\ UNCHANGED <<quota, options, brokers, components, middlewares, errorPolicy, maxListeners, exc, removers,
                 onceCalls>>

Unregister(k, l, via) ==
  /\ CanCall
  /\ Counted
  /\ listeners' = ListenersAfterOff(k, l)
  /\ stack' = StackAfterOff(stack, k, l)
  /\ regOrder' = RegAfterOff(k, l)
  /\ log' = Append(Base, [t |-> "op", e |-> CurE, op |-> via, k |-> k, l |-> l,
                          warn |-> FALSE, was |-> listeners])

\* off(eventName, listener) with a function the caller holds
Off(k, f) ==
  /\ Unregister(k, Plain(f), "off")
  /\ UNCHANGED <<quota, options, brokers, components, middlewares, errorPolicy, maxListeners, exc,
                 unsubs, removers, adapters, onceCalls>>

\* (mutant) a closure that removes nothing
UnsubscribeRemovesNothing(u) ==
  /\ CanCall
  /\ Counted
  /\ log' = Append(Base, [t |-> "op", e |-> CurE, op |-> "unsubscribe", k |-> u.ev,
                          l |-> u.l, warn |-> FALSE, was |-> listeners])
  /\ UNCHANGED <<quota, options, brokers, components, listeners, middlewares, errorPolicy, maxListeners, stack, exc,
                 unsubs, removers, adapters, regOrder, onceCalls>>

\* a closure returned by on() / once(): () => this.off(eventName, listener)
\* (mutant) closures that count registrations: after on(k, f) was called twice
\* since f was last removed, one closure call alone leaves f registered
UnsubscribeCountsRegistrations(u) ==
  LET removed == {i \in 1..Len(log) :
                    /\ log[i].t = "op"
                    /\ \/ log[i].op = "clear"
                       \/ /\ log[i].op \in {"off", "unsubscribe"}
                          /\ log[i].k = u.ev /\ log[i].l = u.l}
      since == {i \in 1..Len(log) :
                  /\ log[i].t = "op" /\ log[i].op = "on"
                  /\ log[i].k = u.ev /\ log[i].l = u.l
                  /\ \A j \in removed : j < i}
  IN IF Cardinality(since) >= 2
       THEN UnsubscribeRemovesNothing(u)
       ELSE /\ Unregister(u.ev, u.l, "unsubscribe")
            /\ UNCHANGED <<quota, options, brokers, components, middlewares, errorPolicy,
                           maxListeners, exc, unsubs, removers, adapters,
                           onceCalls>>
Unsubscribe(u) ==
  /\ Unregister(u.ev, u.l, "unsubscribe")
  /\ UNCHANGED <<quota, options, brokers, components, middlewares, errorPolicy, maxListeners, exc,
                 unsubs, removers, adapters, onceCalls>>

\* (mutant) clear() that leaves the registry as it is
ClearKeepsListeners ==
  /\ CanCall
  /\ Counted
  /\ log' = Append(Base, [t |-> "op", e |-> CurE, op |-> "clear", k |-> "",
                          l |-> "", warn |-> FALSE, was |-> listeners])
  /\ UNCHANGED <<quota, options, brokers, components, listeners, middlewares, errorPolicy, maxListeners, stack, exc,
                 unsubs, removers, adapters, regOrder, onceCalls>>

Clear ==
  /\ CanCall
  /\ Counted
  /\ listeners' = EmptyMap
  /\ stack' = StackAfterClear(stack)
  /\ regOrder' = [k \in Names |-> <<>>]
  /\ log' = Append(Base, [t |-> "op", e |-> CurE, op |-> "clear", k |-> "",
                          l |-> "", warn |-> FALSE, was |-> listeners])
  /\ UNCHANGED <<quota, options, brokers, components, middlewares, errorPolicy, maxListeners, exc, unsubs, removers,
                 adapters, onceCalls>>

Use(m) ==
  /\ CanCall
  /\ Counted
  /\ middlewares' = SetAdd(middlewares, m)
  /\ removers' = removers \cup {m}
  /\ log' = Append(Base, [t |-> "op", e |-> CurE, op |-> "use", k |-> "",
                          l |-> m, warn |-> FALSE, was |-> listeners])
  /\ UNCHANGED <<quota, options, brokers, components, listeners, errorPolicy, maxListeners, stack, exc, unsubs,
                 adapters,
                 regOrder, onceCalls>>

\* (mutant) a remover that deletes the middleware added last, not its own
RemoveDeletesLast(m) ==
  /\ CanCall
  /\ Counted
  /\ m \in removers
  /\ middlewares' = SubSeq(middlewares, 1, Len(middlewares) - 1)
  /\ log' = Append(Base, [t |-> "op", e |-> CurE, op |-> "remove", k |-> "",
                          l |-> m, warn |-> FALSE, was |-> listeners])
  /\ UNCHANGED <<quota, options, brokers, components, listeners, errorPolicy, maxListeners, stack, exc, unsubs,
                 removers,
                 adapters, regOrder, onceCalls>>

\* the closure use() returned: () => this.middlewares.delete(middleware)
Remove(m) ==
  /\ CanCall
  /\ Counted
  /\ m \in removers
  /\ middlewares' = SetDelete(middlewares, m)
  /\ log' = Append(Base, [t |-> "op", e |-> CurE, op |-> "remove", k |-> "",
                          l |-> m, warn |-> FALSE, was |-> listeners])
  /\ UNCHANGED <<quota, options, brokers, components, listeners, errorPolicy, maxListeners, stack, exc, unsubs,
                 removers,
                 adapters, regOrder, onceCalls>>

(* --------------------------------- emit -------------------------------- *)

Event(name, data) == [name |-> name, data |-> data]

\* One step of the reduceRight callback (lines 154-170) for arr[i]: middleware(next)
\* either returns the wrapped function or throws; a throw goes to handleError with
\* the middleware tag, and a handled throw returns next itself. An error that
\* leaves the callback ends the reduction.
\* (mutant) a fold that makes the last-registered middleware the outermost
ComposeStepReversed(acc, m, throws, k, d, e) ==
  IF acc.err # NoExc THEN acc
  ELSE IF ~throws THEN [acc EXCEPT !.chain = @ \o <<m>>]
  ELSE [chain |-> acc.chain, err |-> NoExc,
        notes |-> acc.notes \o <<[t |-> "wrapthrow", e |-> e, m |-> m]>>]

ComposeStep(acc, m, throws, k, d, e) ==
  IF acc.err # NoExc THEN acc
  ELSE IF ~throws THEN [acc EXCEPT !.chain = <<m>> \o @]
  ELSE LET h == HandleError(m, Event(k, d), ERROR_TYPE_MIDDLEWARE, e)
       IN [chain |-> acc.chain,
           err |-> h.err,
           notes |-> acc.notes \o <<[t |-> "wrapthrow", e |-> e, m |-> m]>> \o h.notes]

RECURSIVE ReduceRight(_, _, _, _, _, _, _)
ReduceRight(arr, i, acc, bad, k, d, e) ==
  IF i = 0 THEN acc
  ELSE ReduceRight(arr, i - 1, ComposeStep(acc, arr[i], arr[i] \in bad, k, d, e),
                   bad, k, d, e)

\* Array.from(this.middlewares).reduceRight(..., terminal): the layers that wrap
\* the terminal stage, outermost first; bad are the middlewares whose wrapping throws
Composed(bad, k, d, e) ==
  ReduceRight(middlewares, Len(middlewares),
              [chain |-> <<>>, err |-> NoExc, notes |-> <<>>], bad, k, d, e)

\* Calling layer i of a composed chain with an event: the function middleware
\* chain[i] returned, or past the last one the terminal stage (lines 171-184),
\* which reads this.listeners.get(eventName) with emit's own eventName.
\* (mutant) a composed function that goes straight to the listeners
LayerSkipsMiddleware(e, k, chain, i, event) == TermFrame(e, k, event)
Layer(e, k, chain, i, event) ==
  IF i > Len(chain) THEN TermFrame(e, k, event) ELSE MwFrame(e, k, chain, i, event)
LayerNote(e, k, chain, i, event) ==
  IF i > Len(chain)
    THEN [t |-> "term", e |-> e, k |-> k, event |-> event,
          set |-> MapGet(listeners, k), reg |-> regOrder[k]]
    ELSE [t |-> "pre", e |-> e, m |-> chain[i], event |-> event]

Emits(lg) == Cardinality({i \in 1..Len(lg) : lg[i].t = "emit"})

\* emit(eventName, data) up to the first callback it runs
Emit(k, d) ==
  /\ CanCall
  /\ Depth < quota.depth
  /\ Counted
  /\ \E bad \in SUBSET Range(middlewares) :
       LET e == Emits(Base) + 1
           c == Composed(bad, k, d, e)
           start == <<[t |-> "emit", e |-> e, k |-> k, d |-> d, from |-> CurE,
                       chain |-> middlewares]>>
       IN IF c.err = NoExc
            THEN /\ stack' = stack \o <<EmitFrame(e, k, d),
                                         Layer(e, k, c.chain, 1, Event(k, d))>>
                 /\ exc' = NoExc
                 /\ log' = Base \o start \o c.notes
                             \o <<LayerNote(e, k, c.chain, 1, Event(k, d))>>
            ELSE /\ stack' = Append(stack, EmitFrame(e, k, d))
                 /\ exc' = c.err
                 /\ log' = Base \o start \o c.notes
  /\ UNCHANGED <<quota, options, brokers, components, listeners, middlewares, errorPolicy, maxListeners, unsubs,
                 removers,
                 adapters, regOrder, onceCalls>>

Running(kind) == stack # <<>> /\ Top.kind = kind /\ exc = NoExc
Thrown(kind) == stack # <<>> /\ Top.kind = kind /\ exc # NoExc

\* The events a middleware passes to next: the one it received, or another one.
PassOn(event) ==
  {event, Event(CHOOSE n \in Names : n # event.name,
                CHOOSE d \in Data : d # event.data)}

\* a middleware's function calls next(event'), with the event it chooses to pass
\* (mutant) next() that looks up the following layer in this.middlewares as it
\* is when next is called
MwNextLiveChain(name, data) ==
  /\ Running("mw")
  /\ Event(name, data) \in PassOn(Top.event)
  /\ Top.nexts < MaxNext
  /\ stack' = Append([stack EXCEPT ![Len(stack)].nexts = @ + 1],
                     Layer(Top.e, Top.k, middlewares, Top.i + 1, Event(name, data)))
  /\ log' = Append(log, LayerNote(Top.e, Top.k, middlewares, Top.i + 1,
                                  Event(name, data)))
  /\ UNCHANGED <<quota, options, brokers, components, listeners, middlewares, errorPolicy,
                 maxListeners, exc, unsubs, removers, adapters, ops, regOrder,
                 onceCalls>>

MwNext(name, data) ==
  /\ Running("mw")
  /\ Event(name, data) \in PassOn(Top.event)
  /\ Top.nexts < MaxNext
  /\ stack' = Append([stack EXCEPT ![Len(stack)].nexts = @ + 1],
                     Layer(Top.e, Top.k, Top.chain, Top.i + 1, Event(name, data)))
  /\ log' = Append(log, LayerNote(Top.e, Top.k, Top.chain, Top.i + 1,
                                  Event(name, data)))
  /\ UNCHANGED <<quota, options, brokers, components, listeners, middlewares, errorPolicy, maxListeners, exc,
                 unsubs,
                 removers, adapters, ops, regOrder, onceCalls>>

MwReturn ==
  /\ Running("mw")
  /\ stack' = Pop
  /\ log' = Append(log, [t |-> "post", e |-> Top.e, m |-> Top.m])
  /\ UNCHANGED <<quota, options, brokers, components, listeners, middlewares, errorPolicy, maxListeners, exc,
                 unsubs,
                 removers, adapters, ops, regOrder, onceCalls>>

MwThrow ==
  /\ Running("mw")
  /\ stack' = Pop
  /\ exc' = Top.m
  /\ log' = Append(log, [t |-> "mwthrow", e |-> Top.e, m |-> Top.m, err |-> Top.m])
  /\ UNCHANGED <<quota, options, brokers, components, listeners, middlewares, errorPolicy, maxListeners, unsubs,
                 removers, adapters, ops, regOrder, onceCalls>>

\* for (const listener of set): the iterator yields the next entry; listener(event.data)
TermInvoke ==
  /\ Running("term")
  /\ Top.idx < Len(Top.items)
  /\ LET l == Top.items[Top.idx + 1]
     IN /\ stack' = Append([stack EXCEPT ![Len(stack)].idx = @ + 1],
                           LisFrame(Top.e, l, Top.event.data))
        /\ log' = Append(log, [t |-> "call", e |-> Top.e, l |-> l,
                               d |-> Top.event.data,
                               conf |-> [items |-> Top.items, idx |-> Top.idx + 1,
                                         listeners |-> listeners]])
        /\ onceCalls' = IF l.once = 0 THEN onceCalls
                        ELSE [onceCalls EXCEPT ![l.once] =
                                IF @ < MaxCalls THEN @ + 1 ELSE @]
  /\ UNCHANGED <<quota, options, brokers, components, listeners, middlewares, errorPolicy, maxListeners, exc,
                 unsubs,
                 removers, adapters, ops, regOrder>>

\* the iterator is done: the terminal stage returns
TermDone ==
  /\ Running("term")
  /\ Top.idx >= Len(Top.items)
  /\ stack' = Pop
  /\ log' = Append(log, [t |-> "termend", e |-> Top.e])
  /\ UNCHANGED <<quota, options, brokers, components, listeners, middlewares, errorPolicy, maxListeners, exc,
                 unsubs,
                 removers, adapters, ops, regOrder, onceCalls>>

\* catch around listener(event.data), lines 176-182
TermCatch ==
  /\ Thrown("term")
  /\ LET h == HandleError(exc, Top.event, ERROR_TYPE_LISTENER, Top.e)
     IN /\ stack' = IF h.handled THEN stack ELSE Pop
        /\ exc' = h.err
        /\ log' = log \o h.notes
  /\ UNCHANGED <<quota, options, brokers, components, listeners, middlewares, errorPolicy, maxListeners, unsubs,
                 removers, adapters, ops, regOrder, onceCalls>>

\* A registered function returns. once()'s adapter (lines 238-241) runs
\* this.off(eventName, wrappedListener) after the user listener returned.
LisReturn ==
  /\ Running("lis")
  /\ LET l == Top.l
     IN IF l.once = 0
          THEN /\ stack' = Pop
               /\ UNCHANGED <<quota, options, brokers, components, listeners, regOrder>>
          ELSE /\ stack' = StackAfterOff(Pop, l.ev, l)
               /\ listeners' = ListenersAfterOff(l.ev, l)
               /\ regOrder' = RegAfterOff(l.ev, l)
  /\ log' = Append(log, [t |-> "ret", e |-> Top.e, l |-> Top.l])
  /\ UNCHANGED <<quota, options, brokers, components, middlewares, errorPolicy, maxListeners, exc, unsubs, removers,
                 adapters, ops, onceCalls>>

\* A registered function throws; the adapter has no guard, so its off() is skipped.
LisThrow ==
  /\ Running("lis")
  /\ stack' = Pop
  /\ exc' = Top.l.fn
  /\ log' = Append(log, [t |-> "throw", e |-> Top.e, l |-> Top.l, err |-> Top.l.fn])
  /\ UNCHANGED <<quota, options, brokers, components, listeners, middlewares, errorPolicy, maxListeners, unsubs,
                 removers, adapters, ops, regOrder, onceCalls>>

\* A call made by a callback (a nested emit, or next) threw into it: the callback
\* catches the error itself ...
UserCatch ==
  /\ stack # <<>> /\ IsUserFrame(Top) /\ exc # NoExc
  /\ exc' = NoExc
  /\ log' = Append(log, [t |-> "caught", e |-> Top.e, err |-> exc])
  /\ UNCHANGED <<quota, options, brokers, components, listeners, middlewares, errorPolicy, maxListeners, stack,
                 unsubs,
                 removers, adapters, ops, regOrder, onceCalls>>

\* ... or lets it through.
UserPropagate ==
  /\ stack # <<>> /\ IsUserFrame(Top) /\ exc # NoExc
  /\ stack' = Pop
  /\ log' = Append(log,
                   IF Top.kind = "lis"
                     THEN [t |-> "throw", e |-> Top.e, l |-> Top.l, err |-> exc]
                     ELSE [t |-> "mwthrow", e |-> Top.e, m |-> Top.m, err |-> exc])
  /\ UNCHANGED <<quota, options, brokers, components, listeners, middlewares, errorPolicy, maxListeners, exc,
                 unsubs,
                 removers, adapters, ops, regOrder, onceCalls>>

\* (mutant) a nested emit whose return also ends the emission it was called from
EmitReturnUnwinds ==
  /\ Running("emit")
  /\ stack' = IF Len(stack) > 1 THEN <<stack[1]>> ELSE Pop
  /\ log' = Append(log, [t |-> "end", e |-> Top.e])
  /\ UNCHANGED <<quota, options, brokers, components, listeners, middlewares, errorPolicy, maxListeners, exc,
                 unsubs,
                 removers, adapters, ops, regOrder, onceCalls>>

\* composed(...) returned: emit returns to its caller
EmitReturn ==
  /\ Running("emit")
  /\ stack' = Pop
  /\ log' = Append(log, [t |-> "end", e |-> Top.e])
  /\ UNCHANGED <<quota, options, brokers, components, listeners, middlewares, errorPolicy, maxListeners, exc,
                 unsubs,
                 removers, adapters, ops, regOrder, onceCalls>>

\* The outer catch, lines 188-194: handled, emit returns; otherwise the error
\* is thrown to the caller of emit (top-level code receives it and goes on).
EmitCatch ==
  /\ Thrown("emit")
  /\ LET h == HandleError(exc, Event(Top.k, Top.d), ERROR_TYPE_EMIT, Top.e)
     IN /\ stack' = Pop
        /\ exc' = IF Len(stack) = 1 THEN NoExc ELSE h.err
        /\ log' = log \o h.notes
                    \o <<IF h.handled THEN [t |-> "end", e |-> Top.e]
                         ELSE [t |-> "raise", e |-> Top.e, err |-> h.err]>>
  /\ UNCHANGED <<quota, options, brokers, components, listeners, middlewares, errorPolicy, maxListeners, unsubs,
                 removers, adapters, ops, regOrder, onceCalls>>

\* What dispatch itself does once a call is in progress.
Dispatch ==
  \/ TermInvoke
  \/ TermDone
  \/ TermCatch
  \/ LisReturn
  \/ LisThrow
  \/ UserCatch
  \/ UserPropagate
  \/ EmitReturn
  \/ EmitCatch

\* Listener scenarios: a broker without middleware; every registry operation, from
\* top-level code and from inside listeners. Without middleware the middleware
\* slot is never read.
InitL ==
  /\ Constructed
  /\ errorPolicy.onMiddlewareError = POLICY_CONTINUE
  /\ maxListeners = DEFAULT_MAX_LISTENERS
  /\ quota = [ops |-> MaxOpsL, inner |-> MaxInnerL, depth |-> MaxDepthL,
             keep |-> FALSE]

NextL ==
  \/ \E k \in Names, f \in Fns : On(k, f)
  \/ \E k \in Names, f \in Fns : Once(k, f)
  \/ \E k \in Names, f \in Fns : Off(k, f)
  \/ \E u \in unsubs : Unsubscribe(u)
  \/ Clear
  \/ \E k \in Names, d \in Data : Emit(k, d)
  \/ Dispatch

SpecL == InitL /\ [][NextL]_vars

\* Middleware scenarios: use(), removers, on() and emit, with every error policy.
InitM ==
  /\ Constructed
  /\ maxListeners = DEFAULT_MAX_LISTENERS
  /\ quota = [ops |-> MaxOpsM, inner |-> MaxInnerM, depth |-> MaxDepthM,
             keep |-> FALSE]

NextM ==
  \/ \E k \in Names, f \in Fns : On(k, f)
  \/ \E m \in Mws : Use(m)
  \/ \E m \in Mws : Remove(m)
  \/ \E k \in Names, d \in Data : Emit(k, d)
  \/ \E k \in Names, d \in Data : MwNext(k, d)
  \/ MwReturn
  \/ MwThrow
  \/ Dispatch

SpecM == InitM /\ [][NextM]_vars

\* Registry scenarios: new EventBroker() with no options, no middleware; the log
\* keeps every call since construction. Under the default policy no error leaves
\* a guard, so the steps that pass an error on do not occur.
InitR ==
  /\ Constructed
  /\ errorPolicy = DEFAULT_ERROR_POLICY
  /\ maxListeners = DEFAULT_MAX_LISTENERS
  /\ quota = [ops |-> MaxOpsR, inner |-> MaxInnerR, depth |-> MaxDepthR,
             keep |-> TRUE]

NextR ==
  \/ \E k \in Names, f \in Fns : On(k, f)
  \/ \E k \in Names, f \in Fns : Once(k, f)
  \/ \E k \in Names, f \in Fns : Off(k, f)
  \/ \E u \in unsubs : Unsubscribe(u)
  \/ Clear
  \/ \E k \in Names, d \in Data : Emit(k, d)
  \/ TermInvoke
  \/ TermDone
  \/ TermCatch
  \/ LisReturn
  \/ LisThrow
  \/ EmitReturn

SpecR == InitR /\ [][NextR]_vars

\* Chain scenarios: new EventBroker() with no options and no listeners; use(),
\* removers and emits whose middleware call next or return; the log keeps every
\* call since construction.
InitU ==
  /\ Constructed
  /\ errorPolicy = DEFAULT_ERROR_POLICY
  /\ maxListeners = DEFAULT_MAX_LISTENERS
  /\ quota = [ops |-> MaxOpsU, inner |-> MaxInnerU, depth |-> MaxDepthU,
             keep |-> TRUE]

NextU ==
  \/ \E m \in Mws : Use(m)
  \/ \E m \in Mws : Remove(m)
  \/ \E d \in Data : Emit("x", d)
  \/ \E k \in Names, d \in Data : MwNext(k, d)
  \/ MwReturn
  \/ TermDone
  \/ EmitReturn

SpecU == InitU /\ [][NextU]_vars

\* Overflow scenarios: maxListeners 1, 2 or left out, the default policy, no
\* middleware; listeners that return. Listeners that were never registered are
\* interchangeable, so a new one is always the next name of FnsW; the first one
\* is also registered again.
FnsW == <<"f", "g", "h3", "h4", "h5", "h6", "h7", "h8", "h9", "h10", "h11">>

InitW ==
  /\ Constructed
  /\ errorPolicy = DEFAULT_ERROR_POLICY
  /\ quota = [ops |-> MaxOpsW, inner |-> MaxInnerW, depth |-> MaxDepthW,
             keep |-> FALSE]

NextW ==
  \/ \E k \in Names :
       /\ Len(MapGet(listeners, k)) < Len(FnsW)
       /\ On(k, FnsW[Len(MapGet(listeners, k)) + 1])
  \/ \E k \in Names : On(k, FnsW[1])
  \/ \E k \in Names, d \in Data : Emit(k, d)
  \/ TermInvoke
  \/ TermDone
  \/ LisReturn
  \/ EmitReturn

SpecW == InitW /\ [][NextW]_vars

\* Listeners that subscribe and unsubscribe during an emission: the default
\* options, no middleware, listeners that return, no emit inside an emit.
InitT ==
  /\ Constructed
  /\ errorPolicy = DEFAULT_ERROR_POLICY
  /\ maxListeners = DEFAULT_MAX_LISTENERS
  /\ quota = [ops |-> MaxOpsT, inner |-> MaxInnerT, depth |-> MaxDepthT,
              keep |-> FALSE]

NextT ==
  \/ \E k \in Names, f \in Fns : On(k, f)
  \/ \E k \in Names, f \in Fns : Off(k, f)
  \/ \E k \in Names, d \in Data : Emit(k, d)
  \/ TermInvoke
  \/ TermDone
  \/ LisReturn
  \/ EmitReturn

SpecT == InitT /\ [][NextT]_vars

\* Callbacks that call use(), a remover or emit while an emission of x runs: the
\* default options, middlewares added with use(), callbacks that return.
InitC ==
  /\ Constructed
  /\ errorPolicy = DEFAULT_ERROR_POLICY
  /\ maxListeners = DEFAULT_MAX_LISTENERS
  /\ quota = [ops |-> MaxOpsC, inner |-> MaxInnerC, depth |-> MaxDepthC,
              keep |-> FALSE]

NextC ==
  \/ On("x", "f")
  \/ \E m \in Mws : Use(m)
  \/ \E m \in Mws : Remove(m)
  \/ Emit("x", 1)
  \/ \E k \in Names, d \in Data : MwNext(k, d)
  \/ MwReturn
  \/ TermInvoke
  \/ TermDone
  \/ LisReturn
  \/ EmitReturn

SpecC == InitC /\ [][NextC]_vars

(* ------------------------------ React hooks ----------------------------- *)

\* useEventListener(eventName, listener), the effect of component c:
\*   const unsubscribe = broker.on(eventName, listener); return () => unsubscribe();
\* Effects run in React's commit, not inside a listener of the broker.
useEventListener(c, k, f) ==
  /\ AtTopLevel
  /\ ~components[c].mounted
  /\ Register(k, Plain(f), "on")
  /\ components' = [components EXCEPT ![c] =
                      [mounted |-> TRUE, hook |-> "useEventListener", k |-> k,
                       f |-> f, unsubscribe |-> [ev |-> k, l |-> Plain(f)]]]
  /\ UNCHANGED <<quota, options, brokers, middlewares, errorPolicy, maxListeners, exc, removers,
                 adapters, onceCalls>>

\* useEventOnce(eventName, listener): the same effect with broker.once
useEventOnce(c, k, f) ==
  /\ AtTopLevel
  /\ ~components[c].mounted
  /\ adapters < MaxOnce
  /\ adapters' = adapters + 1
  /\ Register(k, WrappedListener(k, f, adapters + 1), "once")
  /\ components' = [components EXCEPT ![c] =
                      [mounted |-> TRUE, hook |-> "useEventOnce", k |-> k,
                       f |-> f,
                       unsubscribe |->
                         [ev |-> k, l |-> WrappedListener(k, f, adapters + 1)]]]
  /\ UNCHANGED <<quota, options, brokers, middlewares, errorPolicy, maxListeners, exc, removers,
                 onceCalls>>

\* The cleanup the effect returned, () => unsubscribe(). React runs it when the
\* component unmounts and when a dependency (broker, eventName, listener)
\* changed; in the second case the effect runs again at once with the new
\* values, which for the broker is this step followed by the hook's step.
EffectCleanup(c) ==
  /\ AtTopLevel
  /\ components[c].mounted
  /\ Unregister(components[c].unsubscribe.ev, components[c].unsubscribe.l,
                "unsubscribe")
  /\ components' = [components EXCEPT ![c] = Unmounted]
  /\ UNCHANGED <<quota, options, brokers, middlewares, errorPolicy, maxListeners, exc, unsubs,
                 removers, adapters, onceCalls>>

\* A provider's broker with the default options, subscribed to only through the
\* hooks of the components; listeners that return.
InitH ==
  /\ Constructed
  /\ errorPolicy = DEFAULT_ERROR_POLICY
  /\ maxListeners = DEFAULT_MAX_LISTENERS
  /\ quota = [ops |-> MaxOpsH, inner |-> MaxInnerH, depth |-> MaxDepthH,
              keep |-> FALSE]

NextH ==
  \/ \E c \in Components, k \in Names, f \in Fns : useEventListener(c, k, f)
  \/ \E c \in Components, k \in Names, f \in Fns : useEventOnce(c, k, f)
  \/ \E c \in Components : EffectCleanup(c)
  \/ \E k \in Names, d \in Data : Emit(k, d)
  \/ TermInvoke
  \/ TermDone
  \/ LisReturn
  \/ EmitReturn

SpecH == InitH /\ [][NextH]_vars

(* --------------------- construction from options ------------------------ *)

\* A middleware the caller wrote, and the one createLoggerMiddleware returns:
\* a new function on every call (part_002, lines 3-24).
UserMw(m) == [fn |-> m, made |-> 0]
createLoggerMiddleware(n) == [fn |-> "logger", made |-> n]
IsLogger(m) == m.made # 0

\* new Set(array): the values in the order of their first occurrence
RECURSIVE NewSet(_)
NewSet(arr) ==
  IF arr = <<>> THEN <<>>
  ELSE SetAdd(NewSet(SubSeq(arr, 1, Len(arr) - 1)), arr[Len(arr)])

\* the options objects a caller may build: middlewares left out, or an array
UserArrays == UNION {[1..n -> {UserMw(m) : m \in Mws}] : n \in 0..MaxUserMws}
OptionsChoices ==
  {[has |-> FALSE, middlewares |-> <<>>, logger |-> b] : b \in BOOLEAN}
    \cup {[has |-> TRUE, middlewares |-> a, logger |-> b] :
            a \in UserArrays, b \in BOOLEAN}

\* const middlewares = options.middlewares || []: the caller's own array when
\* there is one, else a new one
ConstructorArray == IF options.has THEN options.middlewares ELSE <<>>
\* if (options.logger) middlewares.push(createLoggerMiddleware(...))
ArrayAfterPush ==
  IF options.logger
    THEN Append(ConstructorArray, createLoggerMiddleware(Len(brokers) + 1))
    ELSE ConstructorArray

\* createEventBroker(options) = new EventBroker(options), lines 49-59: push()
\* works on the array object itself, which is the caller's when options has one.
createEventBroker ==
  /\ Len(brokers) < MaxBrokers
  /\ options' = IF options.has THEN [options EXCEPT !.middlewares = ArrayAfterPush]
                ELSE options
  /\ brokers' = Append(brokers, [given |-> options,
                                 middlewares |-> NewSet(ArrayAfterPush)])
  /\ UNCHANGED <<listeners, middlewares, errorPolicy, maxListeners, stack, exc,
                 unsubs, removers, adapters, ops, log, quota, regOrder,
                 onceCalls, components>>

\* A caller that holds one options object and constructs brokers from it.
InitO ==
  /\ options \in OptionsChoices
  /\ brokers = <<>>
  /\ listeners = EmptyMap
  /\ middlewares = <<>>
  /\ errorPolicy = DEFAULT_ERROR_POLICY
  /\ maxListeners = DEFAULT_MAX_LISTENERS
  /\ stack = <<>>
  /\ exc = NoExc
  /\ unsubs = {}
  /\ removers = {}
  /\ adapters = 0
  /\ ops = 0
  /\ log = <<>>
  /\ quota = [ops |-> 0, inner |-> 0, depth |-> 0, keep |-> FALSE]
  /\ regOrder = [k \in Names |-> <<>>]
  /\ onceCalls = [n \in 1..MaxOnce |-> 0]
  /\ components = [c \in Components |-> Unmounted]

NextO == createEventBroker

SpecO == InitO /\ [][NextO]_vars

(* ------------------------- reading the log ------------------------------ *)

Idx == 1..Len(log)
Emissions == {log[i].e : i \in {j \in Idx : log[j].t = "emit"}}
At(t, e) == {i \in Idx : log[i].t = t /\ log[i].e = e}
First(S) == CHOOSE i \in S : \A j \in S : i <= j
EmitAt(e) == First(At("emit", e))
\* the broker calls made by callbacks while the terminal stage of e was iterating
CallsDuring(e) ==
  {j \in Idx : /\ IsCall(log[j])
               /\ First(At("term", e)) < j
               /\ j < First(At("termend", e))}
\* the terminal stage of emission e ran once, to its end, and no callback called
\* the broker meanwhile
Quiet(e) ==
  /\ Cardinality(At("term", e)) = 1
  /\ Cardinality(At("termend", e)) = 1
  /\ CallsDuring(e) = {}
Snap(e) == log[First(At("term", e))].set
Calls(e) == SelectSeq(log, LAMBDA z : z.t = "call" /\ z.e = e)
Called(e) == [i \in 1..Len(Calls(e)) |-> Calls(e)[i].l]
NoMiddleware(e) == log[EmitAt(e)].chain = <<>>

(* ------------------------------- claims --------------------------------- *)

\* C1: on a broker with no middleware, an emit(k, d) whose listeners do not call
\* the broker invokes every listener registered for k exactly once, with
\* payload d, before it returns, and invokes no function that is not registered
\* for k (one registered only under another event name).
C1_EmitInvokesRegistered ==
  \A e \in Emissions :
    (NoMiddleware(e) /\ Quiet(e)) =>
      /\ \A l \in Range(Snap(e)) :
           /\ Cardinality({i \in At("call", e) : log[i].l = l}) = 1
           /\ \A i \in At("call", e) : log[i].l = l => log[i].d = log[EmitAt(e)].d
      /\ \A i \in At("call", e) : log[i].l \in Range(Snap(e))
      /\ \A i \in At("call", e) : i < First(At("termend", e))

\* C1 witness: emit("x", d) has returned after invoking f, registered for "x",
\* while another function is registered only for "y".
C1_Witness ==
  /\ \E e \in Emissions :
       /\ NoMiddleware(e) /\ Quiet(e) /\ At("end", e) # {}
       /\ log[EmitAt(e)].k = "x"
       /\ Called(e) = <<Plain("f")>>
  /\ MapGet(listeners, "y") = <<Plain("g")>>

\* C2, as claimed: a once() adapter is invoked at most once, however many
\* emit calls follow the registration.
C2_OnceInvokedOnce ==
  \A n \in 1..MaxOnce : onceCalls[n] <= 1

\* C3, as claimed: the functions one emission invokes are exactly the members of
\* the listener set when its terminal stage started iterating.
C3_SnapshotIteration ==
  \A e \in Emissions :
    (Cardinality(At("term", e)) = 1 /\ At("termend", e) # {}) =>
      Range(Called(e)) = Range(Snap(e))

\* emission e is over: emit returned or threw
Finished(e) == At("end", e) \cup At("raise", e) # {}
\* the terminal stage of e ran once and no callback called the broker after it began
Undisturbed(e) ==
  /\ Cardinality(At("term", e)) = 1
  /\ \A j \in Idx : IsCall(log[j]) => j < First(At("term", e))
Continues(policy) == policy \in {POLICY_CONTINUE, HANDLER}
AllContinue ==
  /\ Continues(errorPolicy.onListenerError)
  /\ Continues(errorPolicy.onEmitError)
  /\ Continues(errorPolicy.onMiddlewareError)

\* C4: when all three slots resolve to continue ("continue" or a custom handler),
\* no emit call throws to its caller, whatever threw inside it.
C4_EmitNeverThrows ==
  AllContinue =>
    /\ \A i \in Idx : log[i].t # "raise"
    /\ exc # NoExc => stack # <<>> /\ Top.kind # "lis"

\* C4 witness: under such a policy one emission in which the wrapping of a
\* middleware, an invoked middleware and a listener all threw has returned.
C4_Witness ==
  /\ AllContinue
  /\ errorPolicy.onEmitError = HANDLER
  /\ \E e \in Emissions :
       /\ At("wrapthrow", e) # {}
       /\ At("mwthrow", e) # {}
       /\ At("throw", e) # {}
       /\ At("end", e) # {}

\* C5, as claimed (its routing part): under a continuing middleware policy the
\* error a middleware throws, while wrapping or when its function is invoked, is
\* resolved by the middleware slot and never by the emit slot.
C5_MiddlewareErrorsToMiddlewareSlot ==
  Continues(errorPolicy.onMiddlewareError) =>
    \A i \in Idx :
      /\ (log[i].t \in {"console", "handler"} /\ log[i].err \in Mws)
           => log[i].slot = ERROR_TYPE_MIDDLEWARE
      /\ log[i].t = "raise" => log[i].err \notin Mws

\* C6: with onListenerError "stop" and onEmitError "stop", once a listener has
\* thrown, the emission does nothing more (no later listener is invoked) except
\* throw that same error to the caller of emit.
C6_StopEscalates ==
  (errorPolicy.onListenerError = POLICY_STOP /\ errorPolicy.onEmitError = POLICY_STOP)
    => \A i \in Idx : log[i].t = "throw" =>
         /\ \A j \in Idx : (j > i /\ log[j].e = log[i].e) =>
              (log[j].t = "raise" /\ log[j].err = log[i].err)
         /\ (\A n \in 1..Len(stack) : stack[n].e # log[i].e)
              => At("raise", log[i].e) # {}

\* C6 witness: the first of two registered listeners threw, emit threw that error
\* and the second listener was not invoked.
C6_Witness ==
  /\ errorPolicy.onListenerError = POLICY_STOP
  /\ errorPolicy.onEmitError = POLICY_STOP
  /\ \E e \in Emissions :
       /\ At("term", e) # {}
       /\ Len(Snap(e)) = 2
       /\ Len(Called(e)) = 1
       /\ \E j \in At("raise", e) : log[j].err = Snap(e)[1].fn

\* a listener threw under a "stop" listener slot, or the wrapping of a middleware
\* threw under a "stop" middleware slot
StopThrow(i) ==
  \/ log[i].t = "throw" /\ errorPolicy.onListenerError = POLICY_STOP
  \/ log[i].t = "wrapthrow" /\ errorPolicy.onMiddlewareError = POLICY_STOP
Thrown1(i) == IF log[i].t = "wrapthrow" THEN log[i].m ELSE log[i].err
After(i) == {j \in Idx : j > i /\ log[j].e = log[i].e}

\* C7, as claimed: such an error is thrown to the caller of emit whatever the
\* emit slot holds.
C7_StopAlwaysSurfaces ==
  \A i \in Idx : (StopThrow(i) /\ Finished(log[i].e)) =>
    \E j \in At("raise", log[i].e) : log[j].err = Thrown1(i)

\* C7, amended: such an error ends the stage it occurred in and, unless a
\* middleware catches it on the way, reaches the outer guard of emit, where the
\* emit slot decides: "stop" throws it to the caller of emit, "continue" or a
\* custom handler lets emit return, a missing slot throws "Invalid error type".
C7_StopReachesEmitSlot ==
  \A i \in Idx :
    (StopThrow(i) /\ \A j \in After(i) : log[j].t # "caught") =>
      /\ \A j \in After(i) :
           /\ log[j].t \in {"mwthrow", "console", "handler", "end", "raise"}
           /\ log[j].t = "mwthrow" => log[j].err = Thrown1(i)
           /\ log[j].t \in {"console", "handler"} =>
                (log[j].slot = ERROR_TYPE_EMIT /\ log[j].err = Thrown1(i))
      /\ Finished(log[i].e) =>
           CASE errorPolicy.onEmitError = POLICY_STOP ->
                  \E j \in At("raise", log[i].e) : log[j].err = Thrown1(i)
             [] errorPolicy.onEmitError = MISSING ->
                  \E j \in At("raise", log[i].e) : log[j].err = InvalidErrorType
             [] errorPolicy.onEmitError = POLICY_CONTINUE ->
                  /\ At("end", log[i].e) # {}
                  /\ \E j \in After(i) : log[j].t = "console"
             [] errorPolicy.onEmitError = HANDLER ->
                  /\ At("end", log[i].e) # {}
                  /\ \E j \in After(i) : log[j].t = "handler"

\* C7 witness: a listener's error left the terminal stage under "stop", passed
\* through a middleware, and the emit slot's custom handler received it.
C7_Witness ==
  /\ errorPolicy.onListenerError = POLICY_STOP
  /\ \E i \in Idx :
       /\ log[i].t = "throw"
       /\ \E j \in After(i) : log[j].t = "mwthrow"
       /\ \E j \in After(i) :
            log[j].t = "handler" /\ log[j].slot = ERROR_TYPE_EMIT
       /\ At("end", log[i].e) # {}

\* C8: with the listener slot "continue", in an emission whose listeners do not
\* call the broker, every listener after a throwing one in the set is still
\* invoked, after the throw, with the payload of the emit.
C8_ContinueIsolatesListeners ==
  errorPolicy.onListenerError = POLICY_CONTINUE =>
    \A e \in Emissions :
      (NoMiddleware(e) /\ Finished(e) /\ Undisturbed(e)) =>
        \A i \in At("throw", e) :
          \A p \in 1..Len(Snap(e)) :
            p > IndexOf(Snap(e), log[i].l) =>
              \E j \in At("call", e) :
                /\ j > i
                /\ log[j].l = Snap(e)[p]
                /\ log[j].d = log[EmitAt(e)].d

\* C8 witness: the first of two listeners threw and the second was then invoked.
C8_Witness ==
  /\ errorPolicy.onListenerError = POLICY_CONTINUE
  /\ \E e \in Emissions :
       /\ NoMiddleware(e) /\ Finished(e) /\ Undisturbed(e)
       /\ Len(Snap(e)) = 2
       /\ \E i \in At("throw", e) : log[i].l = Snap(e)[1]
       /\ Called(e) = Snap(e)

\* C9: in an emission through two middlewares that both call next once and
\* return, the first-registered runs its pre-next part first and its post-next
\* part last, the second-registered inside it, and the listeners innermost.
C9_MiddlewareOrder ==
  \A e \in Emissions :
    LET ch == log[EmitAt(e)].chain
        pre(m) == {i \in At("pre", e) : log[i].m = m}
        post(m) == {i \in At("post", e) : log[i].m = m}
    IN (/\ Len(ch) = 2
        /\ At("wrapthrow", e) = {}
        /\ Cardinality(At("pre", e)) = 2
        /\ Cardinality(At("term", e)) = 1
        /\ post(ch[1]) # {} /\ post(ch[2]) # {}) =>
         /\ pre(ch[1]) # {} /\ pre(ch[2]) # {}
         /\ First(pre(ch[1])) < First(pre(ch[2]))
         /\ First(pre(ch[2])) < First(At("term", e))
         /\ \A c \in At("call", e) :
              First(At("term", e)) < c /\ c < First(post(ch[2]))
         /\ First(post(ch[2])) < First(post(ch[1]))

\* C9 witness: use(A), use(B), on(x, f), emit(x): A, B, f, B, A.
C9_Witness ==
  /\ middlewares = <<"A", "B">>
  /\ \E e \in Emissions :
       /\ log[EmitAt(e)].chain = <<"A", "B">>
       /\ At("end", e) # {}
       /\ SelectSeq(log, LAMBDA z : z.t \in {"pre", "post", "call"})
            = <<[t |-> "pre", e |-> e, m |-> "A", event |-> Event("x", 1)],
                [t |-> "pre", e |-> e, m |-> "B", event |-> Event("x", 1)],
                [t |-> "call", e |-> e, l |-> Plain("f"), d |-> 1,
                 conf |-> [items |-> <<Plain("f")>>, idx |-> 1,
                           listeners |-> listeners]],
                [t |-> "post", e |-> e, m |-> "B"],
                [t |-> "post", e |-> e, m |-> "A"]>>

\* C10: the registry keeps each event's listeners in the order of their first
\* registration (registering one again does not move it), and an emission whose
\* listeners do not call the broker invokes them one after another in that order.
C10_RegistrationOrder ==
  /\ \A k \in Names : MapGet(listeners, k) = regOrder[k]
  /\ \A e \in Emissions :
       (NoMiddleware(e) /\ Quiet(e)) =>
         Called(e) = log[First(At("term", e))].reg

\* C10 witness: g then f were registered for x, and emit(x) invoked g, then f.
C10_Witness ==
  \E e \in Emissions :
    /\ NoMiddleware(e) /\ Quiet(e) /\ At("end", e) # {}
    /\ log[First(At("term", e))].reg = <<Plain("g"), Plain("f")>>
    /\ Called(e) = <<Plain("g"), Plain("f")>>

(* --------------------- claims on sequences of calls --------------------- *)

IsOp(i, op, k, l) ==
  log[i].t = "op" /\ log[i].op = op /\ log[i].k = k /\ log[i].l = l
\* entry i is a call that takes l out of the set of k
Removes(i, k, l) ==
  /\ log[i].t = "op"
  /\ \/ log[i].op = "clear"
     \/ log[i].op \in {"off", "unsubscribe"} /\ log[i].k = k /\ log[i].l = l
NoDup(s) == Cardinality(Range(s)) = Len(s)
Count(s, v) == Cardinality({i \in 1..Len(s) : s[i] = v})
\* on(k, l) was called at least twice before emission e began, and l was not
\* removed since the first of these calls
RegisteredTwice(e, k, l) ==
  \E i \in Idx, j \in Idx :
    /\ i < j /\ j < EmitAt(e)
    /\ IsOp(i, "on", k, l) /\ IsOp(j, "on", k, l)
    /\ \A c \in i + 1..EmitAt(e) - 1 : ~Removes(c, k, l)

\* C11: no listener set ever holds a function twice, and when on(k, f) was
\* called twice or more before an emit(k, d) (whose listeners do not call the
\* broker), that emit invokes f exactly once.
C11_DuplicateOnIsOneInvocation ==
  /\ \A k \in Names : NoDup(MapGet(listeners, k))
  /\ \A e \in Emissions : \A f \in Fns :
       (Quiet(e) /\ RegisteredTwice(e, log[EmitAt(e)].k, Plain(f))) =>
         /\ Count(Snap(e), Plain(f)) = 1
         /\ Count(Called(e), Plain(f)) = 1

\* C11 witness: on(x, f), on(x, f), emit(x, d) has returned and invoked f once.
C11_Witness ==
  \E e \in Emissions :
    /\ Quiet(e) /\ At("end", e) # {}
    /\ RegisteredTwice(e, "x", Plain("f"))
    /\ log[EmitAt(e)].k = "x"
    /\ Called(e) = <<Plain("f")>>
    /\ listeners["x"] = <<Plain("f")>>

\* the last two calls were on(k, l) and then off(k, l), and l was then the only
\* listener of k
OnThenOff(i) ==
  /\ i + 1 = Len(log)
  /\ log[i].t = "op" /\ log[i].op = "on"
  /\ IsOp(i + 1, "off", log[i].k, log[i].l)
  /\ MapGet(log[i].was, log[i].k) \in {<<>>, <<log[i].l>>}

\* C12: on(k, f) followed by off(k, f), f being then the only listener of k,
\* leaves no entry for k and every other entry untouched; when k had no entry
\* before the on, the registry is exactly what it was before the on.
C12_OnOffRestoresRegistry ==
  \A i \in Idx : OnThenOff(i) =>
    /\ ~MapHas(listeners, log[i].k)
    /\ \A z \in Names \ {log[i].k} :
         /\ MapHas(listeners, z) = MapHas(log[i].was, z)
         /\ MapGet(listeners, z) = MapGet(log[i].was, z)
    /\ ~MapHas(log[i].was, log[i].k) => listeners = log[i].was

\* C12 witness: with g registered for y: on(x, f), off(x, f); only y's entry is left.
C12_Witness ==
  /\ \E i \in Idx :
       /\ OnThenOff(i)
       /\ IsOp(i, "on", "x", Plain("f"))
       /\ ~MapHas(log[i].was, "x")
       /\ MapHas(log[i].was, "y")
  /\ DOMAIN listeners = {"y"}

\* C13: every event name that is a key of the registry maps to a non-empty set,
\* after every operation and at every point of a dispatch; an entry whose set
\* an off(), an unsubscribe closure or a once() adapter empties is removed.
C13_NoEmptyEntry ==
  \A k \in DOMAIN listeners : Len(listeners[k]) > 0

\* C13 witness: with g registered for y, off(x, f) has just removed the last
\* listener of x, and x is no longer a key.
C13_Witness ==
  /\ AtTopLevel
  /\ Len(log) = 1
  /\ IsOp(1, "off", "x", Plain("f"))
  /\ log[1].was = [z \in {"x", "y"} |->
                     IF z = "x" THEN <<Plain("f")>> ELSE <<Plain("g")>>]
  /\ DOMAIN listeners = {"y"}

\* entry c is a clear() after which no on() / once() was called before emission
\* e began
ClearedBefore(c, e) ==
  /\ log[c].t = "op" /\ log[c].op = "clear"
  /\ c < EmitAt(e)
  /\ \A j \in c + 1..EmitAt(e) - 1 :
       ~(log[j].t = "op" /\ log[j].op \in {"on", "once"})

\* C14: an emit made after clear() and before any new registration invokes no
\* listener, whatever was registered before the clear.
C14_ClearThenEmitInvokesNone ==
  \A e \in Emissions : \A c \in Idx :
    ClearedBefore(c, e) =>
      /\ At("call", e) = {}
      /\ \A i \in At("term", e) : log[i].set = <<>>

\* C14 witness: f and g were registered for x, then clear(), then emit(x, d)
\* returned without an invocation.
C14_Witness ==
  \E e \in Emissions : \E c \in Idx :
    /\ ClearedBefore(c, e)
    /\ log[EmitAt(e)].k = "x"
    /\ MapGet(log[c].was, "x") = <<Plain("f"), Plain("g")>>
    /\ At("end", e) # {}
    /\ At("call", e) = {}

\* the call just made is a closure returned by on(k, f)
JustUnsubscribed(i) ==
  /\ i = Len(log)
  /\ log[i].t = "op" /\ log[i].op = "unsubscribe"
  /\ log[i].l.once = 0

\* C15: calling the closure returned by on(k, f) throws nothing, takes f (and
\* nothing else) out of the set of k, and called again right after itself
\* leaves the registry exactly as it found it.
C15_UnsubscribeIdempotent ==
  \A i \in Idx : JustUnsubscribed(i) =>
    /\ exc = NoExc
    /\ MapGet(listeners, log[i].k)
         = SelectSeq(MapGet(log[i].was, log[i].k), LAMBDA z : z # log[i].l)
    /\ \A z \in Names \ {log[i].k} :
         MapGet(listeners, z) = MapGet(log[i].was, z)
    /\ (i > 1 /\ IsOp(i - 1, "unsubscribe", log[i].k, log[i].l))
         => listeners = log[i].was

\* C15 witness: on(x, f), on(x, g), u = the closure of on(x, f): u(); u(); g is
\* still registered and the second call changed nothing.
C15_Witness ==
  \E i \in Idx :
    /\ JustUnsubscribed(i)
    /\ i = 4
    /\ IsOp(i, "unsubscribe", "x", Plain("f"))
    /\ IsOp(i - 1, "unsubscribe", "x", Plain("f"))
    /\ MapGet(log[i - 1].was, "x") = <<Plain("f"), Plain("g")>>
    /\ MapGet(listeners, "x") = <<Plain("g")>>

\* entry c belongs to an emission of event name k
OfEmissionOf(c, k) == log[c].e # 0 /\ log[EmitAt(log[c].e)].k = k
\* once(k, f) was called at i and the closure it returned at j, and from the one
\* to the other no emission of k was running
OnceCancelled(i, j) ==
  /\ i < j
  /\ log[i].t = "op" /\ log[i].op = "once"
  /\ IsOp(j, "unsubscribe", log[i].k, log[i].l)
  /\ \A c \in i..j : ~OfEmissionOf(c, log[i].k)

\* C16: when the closure returned by once(k, f) is called before any emission
\* of k has run, the adapter is never invoked, by no emit at all, and the
\* registry does not hold it.
C16_CancelledOnceNeverFires ==
  \A i \in Idx, j \in Idx : OnceCancelled(i, j) =>
    /\ \A c \in Idx : log[c].t = "call" => log[c].l # log[i].l
    /\ onceCalls[log[i].l.once] = 0
    /\ \A k \in Names : ~SetHas(MapGet(listeners, k), log[i].l)

\* C16 witness: once(x, f), on(x, g), the closure of the once, emit(x, d): the
\* emit returned having invoked g only.
C16_Witness ==
  \E i \in Idx, j \in Idx, e \in Emissions :
    /\ OnceCancelled(i, j)
    /\ log[i].k = "x" /\ log[i].l.fn = "f"
    /\ j < EmitAt(e)
    /\ log[EmitAt(e)].k = "x"
    /\ At("end", e) # {}
    /\ Snap(e) = <<Plain("g")>>
    /\ Called(e) = <<Plain("g")>>

(* ------------------------- claims on nested emits ------------------------ *)

\* the emission from whose callback emission e was called (0: top-level code)
Parent(e) == log[EmitAt(e)].from
\* every invocation emission e made has returned or thrown
AllCompleted(e) ==
  Cardinality(At("call", e)) = Cardinality(At("ret", e) \cup At("throw", e))
\* once emission p began iterating, callbacks called nothing but emit, nothing
\* stopped p, and its set held user listeners only
OnlyReentered(p) ==
  /\ NoMiddleware(p)
  /\ Cardinality(At("term", p)) = 1
  /\ \A j \in Idx : j > First(At("term", p)) => log[j].t # "op"
  /\ \A n \in 1..Len(Snap(p)) : Snap(p)[n].once = 0
  /\ Continues(errorPolicy.onListenerError)

\* C17: an emit called by a listener of emission p runs all its invocations to
\* completion and ends before p does anything further; p then goes on and
\* invokes the listeners it has left, in order.
C17_NestedEmitRunsToCompletion ==
  /\ \A e \in Emissions :
       Parent(e) # 0 =>
         \A j \in Idx : (j > EmitAt(e) /\ log[j].e = Parent(e)) =>
           /\ Finished(e)
           /\ AllCompleted(e)
           /\ \A x \in Idx : log[x].e = e => x < j
  /\ \A p \in Emissions :
       (Finished(p) /\ OnlyReentered(p)) => Called(p) = Snap(p)

\* C17 witness: f and g listen to x; f, invoked by emit(x), called emit(x)
\* itself; the nested emission invoked f and g and ended, then f returned and
\* the outer emission invoked g.
C17_Witness ==
  \E p \in Emissions, e \in Emissions :
    /\ Parent(e) = p
    /\ Finished(p) /\ OnlyReentered(p)
    /\ Snap(p) = <<Plain("f"), Plain("g")>>
    /\ Called(e) = <<Plain("f"), Plain("g")>>
    /\ Called(p) = <<Plain("f"), Plain("g")>>
    /\ \E c \in At("call", p) :
         /\ log[c].l = Plain("g")
         /\ \A x \in Idx : log[x].e = e => x < c

(* ------------------------ claims on custom handlers ---------------------- *)

Last(S) == CHOOSE i \in S : \A j \in S : j <= i
\* the event the terminal stage of log[i].e had in hand when entry i was written
TermEvent(i) == log[Last({j \in At("term", log[i].e) : j < i})].event
EmitEvent(e) == Event(log[EmitAt(e)].k, log[EmitAt(e)].d)
HandlerNote(j, slot) == log[j].t = "handler" /\ log[j].slot = slot
EmitSlotEntry(j) ==
  \/ log[j].t = "raise"
  \/ log[j].t \in {"handler", "console"} /\ log[j].slot = ERROR_TYPE_EMIT

\* C18, listener slot: each throw of a listener is followed at once by one call
\* of the handler with the error and the event the terminal stage received; the
\* iteration then goes on; the emit slot never resolves what a listener threw.
C18_Listener ==
  errorPolicy.onListenerError = HANDLER =>
    /\ \A i \in Idx : (log[i].t = "throw" /\ i < Len(log)) =>
         /\ HandlerNote(i + 1, ERROR_TYPE_LISTENER)
         /\ log[i + 1].e = log[i].e
         /\ log[i + 1].err = log[i].err
         /\ log[i + 1].event = TermEvent(i)
    /\ \A j \in Idx : HandlerNote(j, ERROR_TYPE_LISTENER) =>
         /\ j > 1 /\ log[j - 1].t = "throw"
         /\ j < Len(log) =>
              (log[j + 1].t \in {"call", "termend"} /\ log[j + 1].e = log[j].e)
    /\ \A j \in Idx : EmitSlotEntry(j) =>
         /\ j > 1
         /\ log[j - 1].t # "throw"
         /\ ~HandlerNote(j - 1, ERROR_TYPE_LISTENER)

\* C18, middleware slot: each throw while wrapping a middleware is followed at
\* once by one call of the handler with the error and emit's {name, data}; the
\* composition goes on without that middleware and the chain is invoked; the
\* emit slot never resolves what the wrapping threw.
C18_Middleware ==
  errorPolicy.onMiddlewareError = HANDLER =>
    /\ \A i \in Idx : log[i].t = "wrapthrow" =>
         /\ i < Len(log)
         /\ HandlerNote(i + 1, ERROR_TYPE_MIDDLEWARE)
         /\ log[i + 1].e = log[i].e
         /\ log[i + 1].err = log[i].m
         /\ log[i + 1].event = EmitEvent(log[i].e)
    /\ \A j \in Idx : HandlerNote(j, ERROR_TYPE_MIDDLEWARE) =>
         /\ j > 1 /\ log[j - 1].t = "wrapthrow"
         /\ j < Len(log)
         /\ log[j + 1].t \in {"wrapthrow", "pre", "term"}
         /\ log[j + 1].e = log[j].e
    /\ \A j \in Idx : EmitSlotEntry(j) =>
         /\ j > 1
         /\ log[j - 1].t # "wrapthrow"
         /\ ~HandlerNote(j - 1, ERROR_TYPE_MIDDLEWARE)

\* C18, emit slot: an error that reaches the outer guard is handed once to the
\* handler with emit's {name, data}, and emit returns.
C18_Emit ==
  errorPolicy.onEmitError = HANDLER =>
    /\ \A j \in Idx : HandlerNote(j, ERROR_TYPE_EMIT) =>
         /\ log[j].event = EmitEvent(log[j].e)
         /\ j < Len(log) /\ log[j + 1] = [t |-> "end", e |-> log[j].e]
         /\ Cardinality({i \in At("handler", log[j].e) :
                           log[i].slot = ERROR_TYPE_EMIT}) = 1
    /\ \A j \in Idx : log[j].t # "raise"

Chain(e) == log[EmitAt(e)].chain
\* nothing was thrown by a middleware of emission e, in wrapping or when invoked
NoMiddlewareThrow(e) == At("wrapthrow", e) = {} /\ At("mwthrow", e) = {}

\* C19: listeners are invoked only inside the terminal stage, which only the
\* last middleware's next reaches. An emission through middleware in which
\* some middleware returned without calling next (the terminal stage was
\* never entered, nothing was thrown) invokes no listener and returns normally;
\* one that entered the terminal stage exactly once (its listeners leaving the
\* broker alone) invokes each listener registered for emit's event name exactly
\* once, with the data of the event the last middleware passed on.
C19_ListenersOnlyThroughNext ==
  \A e \in Emissions :
    /\ \A c \in At("call", e) :
         \E t \in At("term", e) :
           /\ t < c
           /\ \A j \in At("termend", e) : j < t \/ c < j
    /\ (Finished(e) /\ At("term", e) = {} /\ NoMiddlewareThrow(e)) =>
         /\ Chain(e) # <<>>
         /\ At("post", e) # {}
         /\ At("call", e) = {}
         /\ At("end", e) # {}
         /\ \A j \in Idx : log[j].e = e => ~EmitSlotEntry(j)
    /\ Quiet(e) =>
         /\ log[First(At("term", e))].k = log[EmitAt(e)].k
         /\ Called(e) = Snap(e)
         /\ \A c \in At("call", e) : log[c].d = log[First(At("term", e))].event.data

\* C19 witness: f listens to x; A called next, B returned without calling it:
\* emit(x, d) returned normally and f was not invoked.
C19_Witness ==
  /\ MapGet(listeners, "x") = <<Plain("f")>>
  /\ \E e \in Emissions :
       /\ log[EmitAt(e)].k = "x"
       /\ Chain(e) = <<"A", "B">>
       /\ SelectSeq(log, LAMBDA z : z.t \in {"pre", "post", "term", "call", "end"})
            = <<[t |-> "pre", e |-> e, m |-> "A", event |-> Event("x", 1)],
                [t |-> "pre", e |-> e, m |-> "B", event |-> Event("x", 1)],
                [t |-> "post", e |-> e, m |-> "B"],
                [t |-> "post", e |-> e, m |-> "A"],
                [t |-> "end", e |-> e]>>

\* The chain that the use() and remover calls among the first n entries of the
\* log leave, by the rule claimed: use adds at the end a middleware that is not
\* in the chain and is otherwise without effect, a remover takes its own out.
RECURSIVE ChainAfter(_)
ChainAfter(n) ==
  IF n = 0 THEN <<>>
  ELSE LET c == ChainAfter(n - 1)
           x == log[n]
       IN IF x.t = "op" /\ x.op = "use"
            THEN IF x.l \in Range(c) THEN c ELSE c \o <<x.l>>
          ELSE IF x.t = "op" /\ x.op = "remove"
            THEN SelectSeq(c, LAMBDA z : z # x.l)
          ELSE c
\* the middlewares of emission e whose wrapping did not throw, outermost first
Wrapped(e) ==
  SelectSeq(Chain(e), LAMBDA m : \A i \in At("wrapthrow", e) : log[i].m # m)
PreOf(e, m) == {i \in At("pre", e) : log[i].m = m}

\* C20: the chain is what the use() and remover calls made so far leave by the
\* rule above, and each emit takes the chain as it is when the emit is called:
\* a middleware in it (whose wrapping does not throw) is entered, once if it is
\* the outermost and otherwise once for each time the one before it calls next,
\* a middleware not in it is not entered, and none is in it twice.
C20_UseAndRemove ==
  /\ middlewares = ChainAfter(Len(log))
  /\ \A e \in Emissions :
       /\ Chain(e) = ChainAfter(EmitAt(e) - 1)
       /\ NoDup(Chain(e))
       /\ \A m \in Mws \ Range(Chain(e)) : PreOf(e, m) = {}
       /\ \A n \in 1..Len(Wrapped(e)) :
            IF n = 1
              THEN /\ Cardinality(PreOf(e, Wrapped(e)[1])) = 1
                   /\ \A i \in At("pre", e) : First(PreOf(e, Wrapped(e)[1])) <= i
              ELSE Cardinality(PreOf(e, Wrapped(e)[n]))
                     <= MaxNext * Cardinality(PreOf(e, Wrapped(e)[n - 1]))

\* C20 witness: use(A), use(B), use(A) again, then an emit that entered A and
\* then B, once each, then A's remover: the chain is B alone.
C20_Witness ==
  /\ Len(log) > 4
  /\ log[1].t = "op" /\ log[1].op = "use" /\ log[1].l = "A"
  /\ log[2].t = "op" /\ log[2].op = "use" /\ log[2].l = "B"
  /\ log[3].t = "op" /\ log[3].op = "use" /\ log[3].l = "A"
  /\ \E e \in Emissions :
       /\ Chain(e) = <<"A", "B">>
       /\ At("end", e) # {}
       /\ Cardinality(PreOf(e, "A")) = 1
       /\ Cardinality(PreOf(e, "B")) = 1
       /\ First(PreOf(e, "A")) < First(PreOf(e, "B"))
  /\ log[Len(log)].t = "op" /\ log[Len(log)].op = "remove" /\ log[Len(log)].l = "A"
  /\ middlewares = <<"B">>

(* ------------------------ claims on listener overflow -------------------- *)

IsOn(i) == log[i].t = "op" /\ log[i].op \in {"on", "once"}
\* entry i registered, for an event name that only held the first n - 1
\* listeners of FnsW, the n-th one
NthDistinct(i, n) ==
  /\ IsOn(i)
  /\ n <= Len(FnsW)
  /\ log[i].l = Plain(FnsW[n])
  /\ MapGet(log[i].was, log[i].k) = [j \in 1..n - 1 |-> Plain(FnsW[j])]

\* C21: on(k, f) warns exactly when the set of k holds at least maxListeners
\* listeners before the insertion (none when k has no set yet); so of the calls
\* that register distinct listeners for one event name the first maxListeners
\* do not warn and every later one does. Without the option maxListeners is 10.
C21_WarnsAtThreshold ==
  /\ \A i \in Idx : IsOn(i) =>
       (log[i].warn <=> Len(MapGet(log[i].was, log[i].k)) >= maxListeners)
  /\ \A i \in Idx : \A n \in 1..Len(FnsW) :
       NthDistinct(i, n) => (log[i].warn <=> n > maxListeners)
  /\ maxListeners \in {1, 2, 10}

\* C21 witness: maxListeners left out; the eleventh distinct listener of x has
\* just been registered with a warning, y holding fewer.
C21_Witness ==
  /\ maxListeners = DEFAULT_MAX_LISTENERS
  /\ AtTopLevel
  /\ log # <<>>
  /\ NthDistinct(Len(log), 11)
  /\ log[Len(log)].k = "x"
  /\ log[Len(log)].warn
  /\ Len(MapGet(listeners, "x")) = 11
  /\ Len(MapGet(listeners, "y")) = 1

\* C22: the threshold only warns. on(k, f) leaves f in the set of k and returns
\* without throwing whether or not it warned, so an emission whose listeners do
\* not call the broker invokes every listener registered for k, in registration
\* order, also when they are more than maxListeners.
C22_OverflowIsAdvisory ==
  /\ (log # <<>> /\ IsOn(Len(log))) =>
       /\ SetHas(MapGet(listeners, log[Len(log)].k), log[Len(log)].l)
       /\ Range(MapGet(log[Len(log)].was, log[Len(log)].k))
            \subseteq Range(MapGet(listeners, log[Len(log)].k))
       /\ exc = NoExc
  /\ \A e \in Emissions :
       (AtTopLevel /\ Quiet(e) /\ At("end", e) # {}) =>
         /\ Called(e) = regOrder[log[EmitAt(e)].k]
         /\ Called(e) = MapGet(listeners, log[EmitAt(e)].k)

\* C22 witness: with maxListeners 1, an emit("x", d) has returned after invoking
\* three listeners, the last two registered with a warning.
C22_Witness ==
  /\ maxListeners = 1
  /\ AtTopLevel
  /\ \E e \in Emissions :
       /\ Quiet(e) /\ At("end", e) # {}
       /\ log[EmitAt(e)].k = "x"
       /\ Called(e) = <<Plain("f"), Plain("g"), Plain("h3")>>

(* --------------------------- claims on the hooks ------------------------ *)

\* the top-level emission that has just returned, if the last call was one
JustEmitted(e) ==
  /\ AtTopLevel
  /\ e \in Emissions
  /\ log[EmitAt(e)].from = 0
  /\ At("end", e) # {}
\* emission e invoked the listener of component c with the payload of the emit
Reached(e, c) ==
  \E i \in At("call", e) :
    /\ log[i].l.fn = components[c].f
    /\ log[i].d = log[EmitAt(e)].d

\* C23, as claimed: the subscription of a component's hook lives from its mount
\* effect to its cleanup. An emit(k, d) made while a component using
\* useEventListener(k, f) is mounted invokes f with d (for useEventOnce: f has
\* been invoked by the first such emit), and every listener an emit invokes is
\* the subscription of a component that is mounted, never one whose cleanup
\* has run.
C23_SubscriptionLivesWhileMounted ==
  \A e \in Emissions :
    JustEmitted(e) =>
      /\ \A c \in Components :
           (components[c].mounted /\ components[c].k = log[EmitAt(e)].k) =>
             IF components[c].hook = "useEventOnce"
               THEN onceCalls[components[c].unsubscribe.l.once] >= 1
               ELSE Reached(e, c)
      /\ \A i \in At("call", e) :
           \E c \in Components :
             /\ components[c].mounted
             /\ components[c].unsubscribe = [ev |-> log[EmitAt(e)].k, l |-> log[i].l]

(* ------------------------- claims on termination ------------------------ *)

\* C24, as claimed: an emit whose listeners all return comes to an end, also
\* when they subscribe, unsubscribe and re-subscribe listeners of the same
\* event. In finite-run form: the iteration of one emission never invokes a
\* listener in a configuration (iterator and registry) in which it has invoked
\* that listener before, since a listener that does again what it did the first
\* time would bring it back there for ever.
C24_IterationNeverRepeats ==
  \A e \in Emissions :
    Cardinality(At("term", e)) = 1 =>
      \A i, j \in At("call", e) :
        (i < j /\ log[i].l = log[j].l) => log[i].conf # log[j].conf

(* ----------------------- claims on missing slots ------------------------ *)

OnlyListenerSlot(policy) ==
  [onListenerError |-> policy, onEmitError |-> MISSING,
   onMiddlewareError |-> MISSING]
\* entry i is the throw of the outermost middleware of its emission, or of the
\* wrapping of a middleware
MiddlewareThrowAt(i) ==
  \/ log[i].t = "wrapthrow"
  \/ /\ log[i].t = "mwthrow"
     /\ Chain(log[i].e) # <<>>
     /\ log[i].m = Chain(log[i].e)[1]
RaiseAt(j, e) ==
  j \in Idx /\ log[j].t = "raise" /\ log[j].e = e /\ log[j].err = InvalidErrorType

IsClear(c) == log[c].t = "op" /\ log[c].op = "clear"
\* the first broker call made while the terminal stage of e iterated was a
\* clear() by one of the listeners of e
ClearedWhileIterating(e, c) ==
  /\ Cardinality(At("term", e)) = 1
  /\ At("termend", e) # {}
  /\ c \in CallsDuring(e)
  /\ \A j \in CallsDuring(e) : c <= j
  /\ IsClear(c)
  /\ log[c].e = e

\* C26: clear() empties the registry at once, but an emission that is iterating
\* goes on: when a listener of emit(k, d) calls clear(), the iteration that runs
\* to its end still invokes every listener that was registered for k, those
\* after the caller included, and if the emission made no other call the
\* registry is empty when emit returns, so that a later emit finds no listener.
C26_ClearDuringEmit ==
  /\ (log # <<>> /\ IsClear(Len(log))) => listeners = EmptyMap
  /\ \A e \in Emissions : \A c \in Idx :
       ClearedWhileIterating(e, c) =>
         /\ Called(e) = Snap(e)
         /\ \A i \in At("call", e) : log[i].d = TermEvent(i).data
         /\ (AtTopLevel /\ CallsDuring(e) = {c}) => listeners = EmptyMap

\* C26 witness: f and g are registered for x, f called clear() while emit("x", d)
\* ran, g was invoked after that, and the registry is empty after the return.
C26_Witness ==
  /\ AtTopLevel
  /\ listeners = EmptyMap
  /\ \E e \in Emissions : \E c \in Idx :
       /\ ClearedWhileIterating(e, c)
       /\ At("end", e) # {}
       /\ Snap(e) = <<Plain("f"), Plain("g")>>
       /\ Called(e) = <<Plain("f"), Plain("g")>>
       /\ log[c - 1].t = "call" /\ log[c - 1].l = Plain("f")
       /\ \E i \in At("call", e) : i > c /\ log[i].l = Plain("g")

(* ------------------- claims on the identity of closures ----------------- *)

\* on(k, l) was called at i and again at j, and l was not removed from i on
\* until the call at n
TwiceBefore(i, j, n) ==
  /\ i < j /\ j < n
  /\ log[i].t = "op" /\ log[i].op = "on"
  /\ IsOp(j, "on", log[i].k, log[i].l)
  /\ \A c \in i + 1..n - 1 : ~Removes(c, log[i].k, log[i].l)
\* on(k, l) was called at i, l was removed at j and registered again at m, and
\* not removed from m on until the call at n
RemovedAndBack(i, j, m, n) ==
  /\ i < j /\ j < m /\ m < n
  /\ log[i].t = "op" /\ log[i].op = "on"
  /\ Removes(j, log[i].k, log[i].l)
  /\ IsOp(m, "on", log[i].k, log[i].l)
  /\ \A c \in m + 1..n - 1 : ~Removes(c, log[i].k, log[i].l)

\* C27: the closure on(k, f) returns stands for the pair (k, f), not for the
\* registration that returned it. Called once, it leaves f out of the set of k:
\* also when on(k, f) had been called twice and no other closure was called,
\* and also when f had been removed and registered again since the closure
\* was returned.
C27_ClosureBoundToPair ==
  \A n \in Idx : JustUnsubscribed(n) =>
    /\ ~SetHas(MapGet(listeners, log[n].k), log[n].l)
    /\ \A i, j \in Idx :
         (TwiceBefore(i, j, n) /\ IsOp(n, "unsubscribe", log[i].k, log[i].l)) =>
           /\ SetHas(MapGet(log[n].was, log[n].k), log[n].l)
           /\ MapGet(listeners, log[n].k)
                = SelectSeq(MapGet(log[n].was, log[n].k), LAMBDA z : z # log[n].l)
    /\ \A i, j, m \in Idx :
         (RemovedAndBack(i, j, m, n) /\ IsOp(n, "unsubscribe", log[i].k, log[i].l))
           => /\ SetHas(MapGet(log[n].was, log[n].k), log[n].l)
              /\ ~SetHas(MapGet(listeners, log[n].k), log[n].l)

\* C27 witness: on(x, f), off(x, f), on(x, f), then the closure: f, which was
\* registered, is gone and the registry is empty.
C27_Witness ==
  /\ Len(log) = 4
  /\ JustUnsubscribed(4)
  /\ RemovedAndBack(1, 2, 3, 4)
  /\ IsOp(1, "on", "x", Plain("f"))
  /\ IsOp(2, "off", "x", Plain("f"))
  /\ IsOp(4, "unsubscribe", "x", Plain("f"))
  /\ log[4].was = [x |-> <<Plain("f")>>]
  /\ listeners = EmptyMap

(* --------------------- claims on once() registrations ------------------- *)

\* once(k, f) was called at i, no emission of k ran from then until emission e
\* of k began, and the adapter was not removed (by its closure or by clear())
PendingOnce(i, e) ==
  /\ log[i].t = "op" /\ log[i].op = "once"
  /\ i < EmitAt(e)
  /\ log[EmitAt(e)].k = log[i].k
  /\ \A c \in i + 1..EmitAt(e) - 1 :
       ~Removes(c, log[i].k, log[i].l) /\ ~OfEmissionOf(c, log[i].k)
\* off(k, f) was called with the user listener of the once() at i, before e
OffWithOriginal(i, e) ==
  \E c \in i + 1..EmitAt(e) - 1 : IsOp(c, "off", log[i].k, Plain(log[i].l.fn))
CallsOf(e, f) == {c \in At("call", e) : log[c].l.fn = f}

\* C28: once(k, f) registers a new adapter each time it is called. off(k, f)
\* with f itself leaves a pending adapter registered, and the next emit(k, d)
\* (whose listeners do not call the broker) invokes every pending adapter
\* once: f runs, also after off(k, f), and runs twice when once(k, f) was
\* called twice.
C28_OnceKeyedByAdapter ==
  /\ \A i \in Idx :
       (i = Len(log) /\ log[i].t = "op" /\ log[i].op = "off") =>
         \A k \in Names : \A l \in Range(MapGet(log[i].was, k)) :
           l.once # 0 => SetHas(MapGet(listeners, k), l)
  /\ \A e \in Emissions : \A i \in Idx :
       (PendingOnce(i, e) /\ Quiet(e)) =>
         /\ Count(Called(e), log[i].l) = 1
         /\ \A j \in Idx :
              (i < j /\ PendingOnce(j, e) /\ log[j].l.fn = log[i].l.fn) =>
                /\ log[i].l # log[j].l
                /\ Cardinality(CallsOf(e, log[i].l.fn)) >= 2

\* C28 witness: once(x, f), once(x, f), off(x, f), emit(x, d): the emit has
\* returned after invoking f through both adapters.
C28_Witness ==
  \E e \in Emissions :
    /\ Quiet(e) /\ At("end", e) # {}
    /\ PendingOnce(1, e) /\ PendingOnce(2, e)
    /\ OffWithOriginal(2, e)
    /\ log[1].l.fn = "f" /\ log[2].l.fn = "f"
    /\ Called(e) = <<log[1].l, log[2].l>>
    /\ Cardinality(CallsOf(e, "f")) = 2

(* ------------- claims on changing the chain while emitting -------------- *)

\* The chain after the first n entries of the log of a top-level emit: the chain
\* that emit started with, changed by the use() and remover calls made since.
RECURSIVE ChainSince(_)
ChainSince(n) ==
  IF n = 0 THEN <<>>
  ELSE LET x == log[n]
       IN IF x.t = "emit" /\ x.from = 0 THEN x.chain
          ELSE IF x.t = "op" /\ x.op = "use"
            THEN IF x.l \in Range(ChainSince(n - 1)) THEN ChainSince(n - 1)
                 ELSE ChainSince(n - 1) \o <<x.l>>
          ELSE IF x.t = "op" /\ x.op = "remove"
            THEN SelectSeq(ChainSince(n - 1), LAMBDA z : z # x.l)
          ELSE ChainSince(n - 1)
\* a callback of emission e changed the set of middlewares at entry c
ChangedDuring(e, c) ==
  c \in Idx /\ log[c].t = "op" /\ log[c].op \in {"use", "remove"} /\ log[c].e = e

\* C29: an emission runs the layers of the middlewares that were in the chain
\* when its emit was called (and whose wrapping did not throw), in that order,
\* whatever use() and remover calls its callbacks make meanwhile: a middleware
\* added during the emission is not entered by it, one removed before its turn
\* is still entered. The change shows in this.middlewares at once and in every
\* emit called after it, a nested one included.
C29_ChainFixedAtEmit ==
  /\ \A e \in Emissions :
       /\ \A i \in At("pre", e) : log[i].m \in Range(Wrapped(e))
       /\ \A t \in At("term", e) : \A m \in Range(Wrapped(e)) :
            \E i \in PreOf(e, m) : i < t
       /\ \A n \in 2..Len(Wrapped(e)) : \A i \in PreOf(e, Wrapped(e)[n]) :
            \E j \in PreOf(e, Wrapped(e)[n - 1]) : j < i
       /\ (log[1].t = "emit" /\ Parent(e) # 0) =>
            Chain(e) = ChainSince(EmitAt(e) - 1)
  /\ (log # <<>> /\ log[1].t = "emit") => middlewares = ChainSince(Len(log))

\* C29 witness: with the chain A, B, middleware A called B's remover and then
\* next: B was entered all the same, the emit returned, and the chain is now A.
C29_Witness ==
  /\ AtTopLevel
  /\ middlewares = <<"A">>
  /\ \E e \in Emissions : \E c \in Idx :
       /\ Chain(e) = <<"A", "B">>
       /\ ChangedDuring(e, c)
       /\ log[c].op = "remove" /\ log[c].l = "B"
       /\ \A i \in PreOf(e, "B") : c < i
       /\ PreOf(e, "B") # {}
       /\ At("end", e) # {}

(* ------------------ claims on events changed by middleware -------------- *)

\* no callback changed the registry during the top-level call in the log
RegistryUntouched == \A j \in Idx : log[j].t # "op"

\* C30: the terminal stage of emit(k, d) iterates the listeners registered for
\* k, the name emit was called with, whatever name the event has that the last
\* middleware passed to next; each listener is called with the data of that
\* event, which need not be d. Listeners registered only under the name of
\* the passed event are not invoked.
C30_ListenersOfEmitName ==
  \A e \in Emissions :
    RegistryUntouched =>
      /\ \A t \in At("term", e) :
           /\ log[t].k = log[EmitAt(e)].k
           /\ log[t].set = MapGet(listeners, log[EmitAt(e)].k)
      /\ \A c \in At("call", e) :
           /\ SetHas(MapGet(listeners, log[EmitAt(e)].k), log[c].l)
           /\ log[c].d = TermEvent(c).data
      /\ Quiet(e) => Called(e) = MapGet(listeners, log[EmitAt(e)].k)

\* C30 witness: f listens to x and g to y; middleware A passed the event (y, 2)
\* to next during emit("x", 1): f was invoked with 2, g was not invoked.
C30_Witness ==
  /\ AtTopLevel
  /\ listeners = [x |-> <<Plain("f")>>, y |-> <<Plain("g")>>]
  /\ \E e \in Emissions :
       /\ EmitEvent(e) = Event("x", 1)
       /\ Chain(e) = <<"A">>
       /\ Quiet(e) /\ At("end", e) # {}
       /\ log[First(At("term", e))].event = Event("y", 2)
       /\ Called(e) = <<Plain("f")>>
       /\ \A c \in At("call", e) : log[c].d = 2

(* ----------------------- claims on construction ------------------------- *)

\* C31, as claimed: the constructor leaves the caller's options object as it
\* found it, middlewares array included, so every broker constructed from one
\* options object with logger: true holds the caller's middlewares followed by
\* exactly one logger, its own, as the last (innermost) layer.
C31_OptionsUnchanged ==
  \A n \in 1..Len(brokers) :
    /\ brokers[n].given = brokers[1].given
    /\ options = brokers[1].given
    /\ brokers[n].given.logger =>
         /\ Cardinality({i \in 1..Len(brokers[n].middlewares) :
                           IsLogger(brokers[n].middlewares[i])}) = 1
         /\ brokers[n].middlewares
              = Append(NewSet(brokers[1].given.middlewares),
                       createLoggerMiddleware(n))

====
